---- MODULE Spec2Model ----
(***************************************************************************)
(* A model of the graph MCP server (src/src/app.py and                     *)
(* src/src/graph_helpers/graph.py): five tools served by one asyncio       *)
(* event loop.  Python values are modelled as follows.                     *)
(*   - a str is a TLA+ string; None, True, False and ints are the atoms    *)
(*     "<None>", "<True>", "<False>", "<n>", which no str of the model     *)
(*     equals;                                                             *)
(*   - a dict is a function from its keys to its values;                   *)
(*   - a list is a sequence;                                               *)
(*   - message ids and paths are sequences of characters (one-character    *)
(*     strings, or a whole name where the code never looks inside it).     *)
(***************************************************************************)
EXTENDS Naturals, Sequences, FiniteSets, TLC

VARIABLES
    environ,        \* the process environment read at import (app.py 14-17)
    client_id,      \* module-level configuration of app.py
    client_secret,
    tenant_id,
    user_scopes,
    fs,             \* the files on disk: resolved path -> content
    directory,      \* the Graph service: what /me answers for each user token
    graphs,         \* the Graph objects held by the invocations' local `graph`
    calls           \* the tool invocations of the event loop

vars == <<environ, client_id, client_secret, tenant_id, user_scopes,
          fs, directory, graphs, calls>>

(***************************************************************************)
(* Bounds.                                                                 *)
(***************************************************************************)
MaxCalls == 2       \* tool invocations in flight in one behaviour
MaxLen == 2         \* characters of a message_id
MaxMsgs == 2        \* elements of the 'value' list of sample_emails.json

Calls == 1..MaxCalls

(***************************************************************************)
(* Python values.                                                          *)
(***************************************************************************)
PyNone == "<None>"
PyTrue == "<True>"
PyFalse == "<False>"
PyBool == {PyTrue, PyFalse}
PyInt(n) == "<" \o ToString(n) \o ">"

\* bool(v) of a str-or-None value: None and "" are falsy
Truthy(v) == v \notin {PyNone, PyFalse, ""}

\* Python's `a or b`
Or(a, b) == IF Truthy(a) THEN a ELSE b

EmptyDict == [k \in {} |-> PyNone]

\* dict.get(key) with the default None
Get(d, key) == IF key \in DOMAIN d THEN d[key] ELSE PyNone

\* the text of a sequence of characters
RECURSIVE Str(_)
Str(s) == IF s = <<>> THEN "" ELSE Head(s) \o Str(Tail(s))

\* a faulty rstrip: it drops one trailing c only
rstrip_once(s, c) ==
    IF s # <<>> /\ s[Len(s)] = c THEN SubSeq(s, 1, Len(s) - 1) ELSE s

\* str.rstrip(c): drop every trailing c
RECURSIVE rstrip(_, _)
rstrip(s, c) ==
    IF s # <<>> /\ s[Len(s)] = c THEN rstrip(SubSeq(s, 1, Len(s) - 1), c) ELSE s

(***************************************************************************)
(* Paths (posixpath).                                                      *)
(***************************************************************************)
\* the largest index of "/" in p, 0 when there is none
RECURSIVE rfind_slash(_, _)
rfind_slash(p, i) ==
    IF i = 0 THEN 0 ELSE IF p[i] = "/" THEN i ELSE rfind_slash(p, i - 1)

\* os.path.dirname
dirname(p) ==
    LET i == rfind_slash(p, Len(p))
        head == SubSeq(p, 1, i)
    IN  IF head # <<>> /\ \E k \in 1..Len(head) : head[k] # "/"
        THEN rstrip(head, "/")
        ELSE head

\* os.path.join(a, b): an absolute b discards a
join(a, b) ==
    IF b # <<>> /\ b[1] = "/" THEN b
    ELSE IF a = <<>> \/ a[Len(a)] = "/" THEN a \o b
    ELSE a \o <<"/">> \o b

\* str.split(sep) on a sequence of characters: the pieces, empty ones included
RECURSIVE split(_, _, _, _)
split(s, sep, cur, acc) ==
    IF s = <<>> THEN Append(acc, cur)
    ELSE IF Head(s) = sep THEN split(Tail(s), sep, <<>>, Append(acc, cur))
    ELSE split(Tail(s), sep, Append(cur, Head(s)), acc)

\* sep.join(pieces)
RECURSIVE sep_join(_, _)
sep_join(sep, pieces) ==
    IF pieces = <<>> THEN <<>>
    ELSE IF Len(pieces) = 1 THEN pieces[1]
    ELSE pieces[1] \o <<sep>> \o sep_join(sep, Tail(pieces))

\* the names between the slashes of p
split_slash(p) ==
    LET pieces == split(p, "/", <<>>, <<>>)
    IN  [n \in 1..Len(pieces) |-> Str(pieces[n])]

\* the directory walk open() makes over the names of an absolute path
RECURSIVE walk(_, _)
walk(names, at) ==
    IF names = <<>> THEN at
    ELSE IF Head(names) \in {"", "."} THEN walk(Tail(names), at)
    ELSE IF Head(names) = ".."
         THEN walk(Tail(names), IF at = <<>> THEN at ELSE SubSeq(at, 1, Len(at) - 1))
    ELSE walk(Tail(names), Append(at, Head(names)))

\* the file an absolute path names: its directory names, then its own name
Resolve(p) == walk(split_slash(p), <<>>)

RECURSIVE PathStr(_)
PathStr(names) == IF names = <<>> THEN "" ELSE "/" \o Head(names) \o PathStr(Tail(names))

\* the directory that holds the file Resolve names
ParentOf(names) == IF names = <<>> THEN names ELSE SubSeq(names, 1, Len(names) - 1)

\* __file__ of app.py, absolute
AppFile == <<"/", "repo", "/", "src", "/", "app.py">>

\* current_dir = os.path.dirname(os.path.abspath(__file__))
current_dir == dirname(AppFile)

\* data_dir = os.path.join(os.path.dirname(current_dir), "data")
data_dir == join(dirname(current_dir), <<"data">>)

\* data_file of list_email_messages
data_file == join(dirname(current_dir), join(<<"data">>, <<"sample_emails.json">>))

(***************************************************************************)
(* Exceptions: the classes the tools' except clauses tell apart.           *)
(***************************************************************************)
Bases(cls) ==
    CASE cls = "FileNotFoundError" -> {"FileNotFoundError", "OSError", "Exception"}
      [] cls = "PermissionError" -> {"PermissionError", "OSError", "Exception"}
      [] cls = "JSONDecodeError" -> {"JSONDecodeError", "ValueError", "Exception"}
      [] OTHER -> {cls, "Exception"}

\* isinstance(e, cls) for an exception e of class exc
IsInstance(exc, cls) == cls \in Bases(exc)

(***************************************************************************)
(* Files.  A file's content is what json.load makes of it: a JSON object   *)
(* (obj: its scalar entries; value: its 'value' entry), JSON that is not   *)
(* an object, text that is no JSON, or a file open() is refused.  The      *)
(* files get_email_message can name in this model hold no 'value' entry.   *)
(***************************************************************************)
NoValue == [t |-> "absent", items |-> <<>>]
JObject(obj, value) == [kind |-> "object", obj |-> obj, value |-> value]
JArray == [kind |-> "array", obj |-> EmptyDict, value |-> NoValue]
BadJson == [kind |-> "bad_json", obj |-> EmptyDict, value |-> NoValue]
Unreadable == [kind |-> "unreadable", obj |-> EmptyDict, value |-> NoValue]

\* with open(path, "r") as f: json.load(f) -- the exception raised ("" for
\* none), its str(), the file opened (its resolved names) and the value loaded
load_json(path) ==
    LET names == Resolve(path)
        file == PathStr(names)
    IN  IF file \notin DOMAIN fs
        THEN [exc |-> "FileNotFoundError",
              msg |-> "[Errno 2] No such file or directory: '" \o Str(path) \o "'",
              opened |-> names, data |-> BadJson]
        ELSE IF fs[file].kind = "unreadable"
        THEN [exc |-> "PermissionError",
              msg |-> "[Errno 13] Permission denied: '" \o Str(path) \o "'",
              opened |-> names, data |-> BadJson]
        ELSE IF fs[file].kind = "bad_json"
        THEN [exc |-> "JSONDecodeError",
              msg |-> "Expecting value: line 1 column 1 (char 0)",
              opened |-> names, data |-> BadJson]
        ELSE [exc |-> "", msg |-> "", opened |-> names, data |-> fs[file]]

(***************************************************************************)
(* What a run of a tool's body ends in.                                    *)
(***************************************************************************)
\* no file was opened
NoOpen == <<>>

Returned(result, opened) ==
    [pc |-> "returned", result |-> result, exception |-> "", opened |-> opened]
Raised(exc, opened) ==
    [pc |-> "raised", result |-> EmptyDict, exception |-> exc, opened |-> opened]

(***************************************************************************)
(* get_email_message (app.py 313-335).                                     *)
(***************************************************************************)
\* the except clauses, tried in order for an exception of class exc.
\* `json` is a local name of the function (bound by the `import json`
\* inside the try), so evaluating json.JSONDecodeError before that import has
\* run raises UnboundLocalError out of the handler.
get_email_message_except(exc, msg, json_bound, message_id, opened) ==
    IF IsInstance(exc, "FileNotFoundError")
    THEN Returned(("error" :> ("Message with ID '" \o Str(message_id.s) \o "' not found"))
                  @@ ("success" :> PyFalse), opened)
    ELSE IF ~json_bound
    THEN Raised("UnboundLocalError", opened)
    ELSE IF IsInstance(exc, "JSONDecodeError")
    THEN Returned(("error" :> ("Failed to parse message data: " \o msg))
                  @@ ("success" :> PyFalse), opened)
    ELSE Returned(("error" :> ("An error occurred: " \o msg))
                  @@ ("success" :> PyFalse), opened)

\* a faulty merge, {"success": True, **message}: the fixture's entry wins
with_success_first(message) ==
    [k \in DOMAIN message \cup {"success"} |->
        IF k \in DOMAIN message THEN message[k] ELSE PyTrue]

\* a faulty merge that keeps 'error' for failures and drops the fixture's
with_success_without_error(message) ==
    [k \in (DOMAIN message \ {"error"}) \cup {"success"} |->
        IF k = "success" THEN PyTrue ELSE message[k]]

\* {**message, "success": True}
with_success(message) ==
    [k \in DOMAIN message \cup {"success"} |->
        IF k = "success" THEN PyTrue ELSE message[k]]

\* the try block
get_email_message_try(message_id) ==
    IF ~message_id.isstr
    THEN get_email_message_except(
             "AttributeError", "'NoneType' object has no attribute 'rstrip'",
             FALSE, message_id, NoOpen)
    ELSE
    LET clean_message_id == rstrip(message_id.s, "=")
        message_file == join(data_dir, clean_message_id \o <<".json">>)
        f == load_json(message_file)
    IN  IF f.exc # ""
        THEN get_email_message_except(f.exc, f.msg, TRUE, message_id, f.opened)
        ELSE IF f.data.kind # "object"
        THEN get_email_message_except(
                 "TypeError", "'list' object is not a mapping",
                 TRUE, message_id, f.opened)
        ELSE Returned(with_success(f.data.obj), f.opened)

\* a faulty tool that reads the mailbox of the request's user: it wants the
\* request's token first
get_email_message_authenticated(ctx, message_id) ==
    IF ctx.token = PyNone
    THEN Returned([error |-> "An error occurred: \"user_assertion\" must not be empty.",
                   success |-> PyFalse], NoOpen)
    ELSE get_email_message_try(message_id)

\* the tool: it asks nothing of the request context ctx
get_email_message(ctx, message_id) == get_email_message_try(message_id)

(***************************************************************************)
(* list_email_messages (app.py 225-270).  Its `import json` is the first   *)
(* statement that can fail, so its except clauses always find json bound.  *)
(***************************************************************************)
ListedKeys == {"id", "subject", "from", "isRead", "bodyPreview"}

\* a faulty filter: the four keys the docstring lists, without isRead
filtered_message_documented(message) ==
    [k \in {"id", "subject", "from", "bodyPreview"} |-> Get(message, k)]

\* the dictionary appended for one message
filtered_message(message) == [k \in ListedKeys |-> Get(message, k)]

list_email_messages_error(msg, opened) ==
    Returned(("error" :> msg) @@ ("success" :> PyFalse) @@ ("value" :> <<>>), opened)

list_email_messages_except(exc, msg, opened) ==
    IF IsInstance(exc, "FileNotFoundError")
    THEN list_email_messages_error(
             "Sample email data file not found at " \o Str(data_file), opened)
    ELSE IF IsInstance(exc, "JSONDecodeError")
    THEN list_email_messages_error("Failed to parse email data: " \o msg, opened)
    ELSE list_email_messages_error("An error occurred: " \o msg, opened)

list_email_messages(ctx) ==
    LET f == load_json(data_file)
    IN  IF f.exc # ""
        THEN list_email_messages_except(f.exc, f.msg, f.opened)
        ELSE IF f.data.kind # "object"
        THEN list_email_messages_except(
                 "AttributeError", "'list' object has no attribute 'get'", f.opened)
        ELSE
        LET value == f.data.value
            \* email_data.get("value", [])
            messages == IF value.t = "absent" THEN <<>> ELSE value.items
        IN  IF value.t \notin {"absent", "list"}
            THEN list_email_messages_except(
                     "TypeError", "'NoneType' object is not iterable", f.opened)
            ELSE IF \E n \in 1..Len(messages) : messages[n].t # "object"
            THEN list_email_messages_except(
                     "AttributeError", "'str' object has no attribute 'get'", f.opened)
            ELSE
            LET filtered_messages ==
                    [n \in 1..Len(messages) |-> filtered_message(messages[n].obj)]
            IN  Returned(("value" :> filtered_messages)
                         @@ ("message_count" :> PyInt(Len(filtered_messages)))
                         @@ ("success" :> PyTrue), f.opened)

(***************************************************************************)
(* The request context and the identity provider.                          *)
(***************************************************************************)
Tokens == {"tokA", "tokB"}

\* what a request carries: a validated access token, or none
RequestTokens == Tokens \cup {PyNone}

\* fastmcp's get_access_token(): the token of the request being served
get_access_token(ctx) == ctx.token

\* token.claims, as the AzureProvider stored them for the token
TokenClaims(token) ==
    IF token = "tokA"
    THEN [sub |-> "sub-ann", email |-> "ann@contoso.com", name |-> "Ann"]
    ELSE [sub |-> "sub-bob", name |-> "Bob", job_title |-> "Engineer"]

(***************************************************************************)
(* get_user_info (app.py 87-99): no try, so a missing token raises.        *)
(***************************************************************************)
get_user_info(ctx) ==
    LET token == get_access_token(ctx)
    IN  IF token = PyNone
        THEN Raised("AttributeError", NoOpen)
        ELSE Returned(
                 [azure_id |-> Get(TokenClaims(token), "sub"),
                  email |-> Get(TokenClaims(token), "email"),
                  name |-> Get(TokenClaims(token), "name"),
                  job_title |-> Get(TokenClaims(token), "job_title"),
                  office_location |-> Get(TokenClaims(token), "office_location")],
                 NoOpen)

(***************************************************************************)
(* Module configuration (app.py 14-17), read from the environment once.    *)
(***************************************************************************)
\* os.environ.get("AZURE_GRAPH_USER_SCOPES", "User.Read").split(" ")
read_user_scopes(env) ==
    LET text == IF env.AZURE_GRAPH_USER_SCOPES.set
                THEN env.AZURE_GRAPH_USER_SCOPES.text
                ELSE <<"User.Read">>
    IN  split(text, " ", <<>>, <<>>)

(***************************************************************************)
(* The Graph helper (graph.py 22-71).                                      *)
(***************************************************************************)
NoCredential ==
    [tenant_id |-> PyNone, client_id |-> PyNone, client_secret |-> PyNone,
     user_assertion |-> PyNone]

OnBehalfOfCredential(tenant, client, secret, assertion) ==
    [tenant_id |-> tenant, client_id |-> client, client_secret |-> secret,
     user_assertion |-> assertion]

NoGraph ==
    [settings |-> [clientId |-> PyNone, clientSecret |-> PyNone, tenantId |-> PyNone,
                   graphUserScopes |-> <<>>],
     device_code_credential |-> NoCredential,
     user_client |-> [credential |-> NoCredential, scopes |-> <<>>]]

\* Graph.__init__ with an obo_credential
Graph(config, obo_credential) ==
    LET graph_scopes == split(config.graphUserScopes, " ", <<>>, <<>>)
    IN  [settings |-> config,
         device_code_credential |-> obo_credential,
         user_client |-> [credential |-> obo_credential, scopes |-> graph_scopes]]

\* _get_graph_client: the exception raised ("" for none), its str(), the client
get_graph_client(user_token) ==
    IF ~(Truthy(client_id) /\ Truthy(client_secret) /\ Truthy(tenant_id))
    THEN [exc |-> "ValueError",
          msg |-> "Missing required environment variables for Microsoft Graph authentication. "
                  \o "Required: MicrosoftAppId, MicrosoftAppPassword, MicrosoftAppTenantId",
          graph |-> NoGraph]
    ELSE
    LET azure_settings ==
            [clientId |-> client_id, clientSecret |-> client_secret,
             tenantId |-> tenant_id, graphUserScopes |-> sep_join(" ", user_scopes)]
        \* user_token.token if hasattr(user_token, "token") else user_token
        token_string == user_token
    IN  IF ~Truthy(token_string)
        THEN \* OnBehalfOfCredential refuses an empty user_assertion
             [exc |-> "TypeError", msg |-> "\"user_assertion\" must not be empty.",
              graph |-> NoGraph]
        ELSE [exc |-> "", msg |-> "",
              graph |-> Graph(azure_settings,
                              OnBehalfOfCredential(tenant_id, client_id, client_secret,
                                                   token_string))]

NoUser == [display_name |-> PyNone, mail |-> PyNone, user_principal_name |-> PyNone]

\* the `error` member of an ODataError: absent, or a code and a message
NoError == [present |-> FALSE, code |-> "", message |-> ""]
MainError(code, message) == [present |-> TRUE, code |-> code, message |-> message]

\* Graph.get_user: what self.user_client.me.get may answer for the client's
\* credential -- the signed-in user, nothing, an ODataError (with or without
\* its error member) or a failure of the token exchange (str(e) in message)
get_user(graph) ==
    LET assertion == graph.user_client.credential.user_assertion
    IN  {[kind |-> "user", user |-> directory[assertion], error |-> NoError,
          message |-> ""],
         [kind |-> "none", user |-> NoUser, error |-> NoError, message |-> ""],
         [kind |-> "ODataError", user |-> NoUser,
          error |-> MainError("Authorization_RequestDenied", "Insufficient privileges"),
          message |-> ""],
         [kind |-> "ODataError", user |-> NoUser, error |-> NoError, message |-> ""],
         [kind |-> "ClientAuthenticationError", user |-> NoUser, error |-> NoError,
          message |-> "AADSTS50013: assertion failed for " \o assertion]}

\* Graph.get_user_token: what device_code_credential.get_token may answer
get_user_token(graph) ==
    LET assertion == graph.device_code_credential.user_assertion
    IN  {[kind |-> "token", token |-> "graph-token-of-" \o assertion, message |-> ""],
         [kind |-> "token", token |-> "", message |-> ""],
         [kind |-> "ClientAuthenticationError", token |-> "",
          message |-> "AADSTS50013: assertion failed for " \o assertion]}

(***************************************************************************)
(* greet_user (app.py 119-155).                                            *)
(***************************************************************************)
\* except ODataError as odata_error / except Exception as e, for an exception
\* of class exc with the given error member and str()
greet_user_except(exc, error, message) ==
    IF IsInstance(exc, "ODataError")
    THEN LET error_msg == IF error.present
                          THEN error.code \o ": " \o error.message
                          ELSE "Unknown error"
         IN  Returned([greeting |-> "Hello!", error |-> error_msg, success |-> PyFalse], NoOpen)
    ELSE Returned([greeting |-> "Hello!", error |-> message, success |-> PyFalse], NoOpen)

\* a faulty body that forgets the user_principal_name of personal accounts
greet_user_finish_mail_only(answer) ==
    IF answer.kind = "user"
    THEN LET user == answer.user
             display_name == Or(user.display_name, "User")
             email == Or(user.mail, "No email found")
             greeting == "Hello, " \o display_name \o "!"
         IN  Returned([greeting |-> greeting, display_name |-> display_name,
                       email |-> email, success |-> PyTrue], NoOpen)
    ELSE IF answer.kind = "none"
    THEN Returned([greeting |-> "Hello!",
                   error |-> "Unable to retrieve user information",
                   success |-> PyFalse], NoOpen)
    ELSE greet_user_except(answer.kind, answer.error, answer.message)

\* the body after `user = await graph.get_user()`
greet_user_finish(answer) ==
    IF answer.kind = "user"
    THEN LET user == answer.user
             display_name == Or(user.display_name, "User")
             email == Or(Or(user.mail, user.user_principal_name), "No email found")
             greeting == "Hello, " \o display_name \o "!"
         IN  Returned([greeting |-> greeting, display_name |-> display_name,
                       email |-> email, success |-> PyTrue], NoOpen)
    ELSE IF answer.kind = "none"
    THEN Returned([greeting |-> "Hello!",
                   error |-> "Unable to retrieve user information",
                   success |-> PyFalse], NoOpen)
    ELSE greet_user_except(answer.kind, answer.error, answer.message)

(***************************************************************************)
(* display_access_token (app.py 174-188).                                  *)
(***************************************************************************)
display_access_token_except(message) ==
    Returned([error |-> message, success |-> PyFalse], NoOpen)

\* the body after `token = await graph.get_user_token()`
display_access_token_finish(answer) ==
    IF answer.kind # "token"
    THEN display_access_token_except(answer.message)
    ELSE IF Truthy(answer.token)
    THEN Returned([token |-> answer.token, success |-> PyTrue], NoOpen)
    ELSE Returned([error |-> "Unable to retrieve access token", success |-> PyFalse], NoOpen)

(***************************************************************************)
(* The event loop.  A tool body runs without interruption up to an await;  *)
(* every await is taken as a point where another invocation may run.       *)
(***************************************************************************)
NoArg == [isstr |-> TRUE, s |-> <<>>]

\* An invocation: where it is (pc), the request (tool, token, message_id),
\* how it ended (result or exception, file opened), and two records of its
\* run: the kind of answer the Graph call gave it (answer) and the
\* invocations that were suspended at an await when it started (overlap).
IdleCall ==
    [pc |-> "idle", tool |-> "", token |-> PyNone, message_id |-> NoArg,
     opened |-> NoOpen, exception |-> "", result |-> EmptyDict,
     answer |-> "", overlap |-> {}]

Suspended == {j \in Calls : calls[j].pc = "awaiting"}

\* invocation i of `tool` for a request with token tok, ended as `end` says
Ended(i, tool, tok, message_id, end, answer) ==
    [pc |-> end.pc, tool |-> tool, token |-> tok, message_id |-> message_id,
     opened |-> end.opened, exception |-> end.exception, result |-> end.result,
     answer |-> answer,
     overlap |-> IF calls[i].pc = "idle" THEN Suspended ELSE calls[i].overlap]

\* invocation i suspended at its await of the Graph call
Awaiting(i, tool, tok) ==
    [pc |-> "awaiting", tool |-> tool, token |-> tok, message_id |-> NoArg,
     opened |-> NoOpen, exception |-> "", result |-> EmptyDict,
     answer |-> "", overlap |-> Suspended]

\* a faulty client cache: one module-level client shared by all invocations
GraphSlotShared(i) == 0

\* where invocation i keeps its local `graph`
GraphSlot(i) == i

Config == <<environ, client_id, client_secret, tenant_id, user_scopes>>

GetUserInfo(i, tokens) ==
    /\ calls[i].pc = "idle"
    /\ \E tok \in tokens :
           calls' = [calls EXCEPT ![i] =
                        Ended(i, "get_user_info", tok, NoArg, get_user_info([token |-> tok]), "")]
    /\ UNCHANGED <<Config, fs, directory, graphs>>

ListEmailMessages(i, tokens) ==
    /\ calls[i].pc = "idle"
    /\ \E tok \in tokens :
           calls' = [calls EXCEPT ![i] =
                        Ended(i, "list_email_messages", tok, NoArg,
                              list_email_messages([token |-> tok]), "")]
    /\ UNCHANGED <<Config, fs, directory, graphs>>

GetEmailMessage(i, tokens, ids) ==
    /\ calls[i].pc = "idle"
    /\ \E tok \in tokens, message_id \in ids :
           calls' = [calls EXCEPT ![i] =
                        Ended(i, "get_email_message", tok, message_id,
                              get_email_message([token |-> tok], message_id), "")]
    /\ UNCHANGED <<Config, fs, directory, graphs>>

\* greet_user up to `user = await graph.get_user()`
GreetUserStart(i, tokens) ==
    /\ calls[i].pc = "idle"
    /\ \E tok \in tokens :
           LET token == get_access_token([token |-> tok])
               client == get_graph_client(token)
           IN  IF client.exc # ""
               THEN /\ calls' = [calls EXCEPT ![i] =
                                    Ended(i, "greet_user", tok, NoArg,
                                          greet_user_except(client.exc, NoError, client.msg),
                                          "")]
                    /\ UNCHANGED graphs
               ELSE /\ graphs' = [graphs EXCEPT ![GraphSlot(i)] = client.graph]
                    /\ calls' = [calls EXCEPT ![i] = Awaiting(i, "greet_user", tok)]
    /\ UNCHANGED <<Config, fs, directory>>

\* greet_user from the answer of graph.get_user() to its return
GreetUserFinish(i) ==
    /\ calls[i].pc = "awaiting"
    /\ calls[i].tool = "greet_user"
    /\ \E answer \in get_user(graphs[GraphSlot(i)]) :
           calls' = [calls EXCEPT ![i] =
                        Ended(i, "greet_user", calls[i].token, NoArg,
                              greet_user_finish(answer), answer.kind)]
    /\ UNCHANGED <<Config, fs, directory, graphs>>

\* display_access_token up to `token = await graph.get_user_token()`
DisplayAccessTokenStart(i, tokens) ==
    /\ calls[i].pc = "idle"
    /\ \E tok \in tokens :
           LET token == get_access_token([token |-> tok])
               client == get_graph_client(token)
           IN  IF client.exc # ""
               THEN /\ calls' = [calls EXCEPT ![i] =
                                    Ended(i, "display_access_token", tok, NoArg,
                                          display_access_token_except(client.msg), "")]
                    /\ UNCHANGED graphs
               ELSE /\ graphs' = [graphs EXCEPT ![GraphSlot(i)] = client.graph]
                    /\ calls' = [calls EXCEPT ![i] = Awaiting(i, "display_access_token", tok)]
    /\ UNCHANGED <<Config, fs, directory>>

\* display_access_token from the answer of graph.get_user_token() to its return
DisplayAccessTokenFinish(i) ==
    /\ calls[i].pc = "awaiting"
    /\ calls[i].tool = "display_access_token"
    /\ \E answer \in get_user_token(graphs[GraphSlot(i)]) :
           calls' = [calls EXCEPT ![i] =
                        Ended(i, "display_access_token", calls[i].token, NoArg,
                              display_access_token_finish(answer), answer.kind)]
    /\ UNCHANGED <<Config, fs, directory, graphs>>

(***************************************************************************)
(* The worlds the server may start in.                                     *)
(***************************************************************************)
Unset == [set |-> FALSE, text |-> <<>>]
EnvOk ==
    [AZURE_CLIENT_ID |-> "app-id", AZURE_CLIENT_SECRET |-> "app-secret",
     AZURE_TENANT_ID |-> "tenant", AZURE_GRAPH_USER_SCOPES |-> Unset]

\* os.environ.get gives None for a variable that is not set
Envs ==
    {EnvOk,
     [EnvOk EXCEPT !.AZURE_GRAPH_USER_SCOPES =
         [set |-> TRUE, text |-> <<"User.Read", " ", "Mail.Read">>]],
     [EnvOk EXCEPT !.AZURE_CLIENT_SECRET = PyNone],
     [EnvOk EXCEPT !.AZURE_TENANT_ID = ""]}

Ann ==
    [display_name |-> "Ann", mail |-> "ann@contoso.com",
     user_principal_name |-> "ann@contoso.onmicrosoft.com"]
Bob ==
    [display_name |-> "Bob", mail |-> PyNone,
     user_principal_name |-> "bob@contoso.onmicrosoft.com"]

\* every profile the Graph service may hold: each property set, empty or null
Users ==
    [display_name : {"Ann", "", PyNone},
     mail : {"ann@contoso.com", "", PyNone},
     user_principal_name : {"ann@contoso.onmicrosoft.com", "", PyNone}]

ServerDirectory == [t \in Tokens |-> IF t = "tokA" THEN Ann ELSE Bob]

\* the file name of the fixture of a message id
MessageFixture(id) == PathStr(Resolve(join(data_dir, id \o <<".json">>)))
SampleEmails == PathStr(Resolve(data_file))

NoFiles == [p \in {} |-> BadJson]

\* fixtures of single messages: some carry keys of the tool's own reply
MessageBase == [id |-> "a", subject |-> "Hi"]
MessageObjects ==
    {EmptyDict}
    \cup {MessageBase @@ s @@ e :
            s \in {EmptyDict, [success |-> PyFalse], [success |-> "yes"]},
            e \in {EmptyDict, [error |-> "boom"]}}
MessageContents ==
    {JObject(obj, NoValue) : obj \in MessageObjects} \cup {JArray, BadJson, Unreadable}

\* a file beside the root directory, outside the data directory
OutsideFile == "/a.json"

MsgFileSystems ==
    {NoFiles, OutsideFile :> JObject(MessageBase, NoValue)}
    \cup {MessageFixture(<<"a">>) :> c : c \in MessageContents}
    \cup {(MessageFixture(<<"a">>) :> JObject(MessageBase, NoValue))
          @@ (OutsideFile :> JObject([subject |-> "Outside"], NoValue))}

\* the elements of the 'value' list of sample_emails.json
FullMessage ==
    [id |-> "m1", subject |-> "Hi", from |-> "ann@contoso.com", isRead |-> PyTrue,
     bodyPreview |-> "Hello Bob", receivedDateTime |-> "2025-01-01T00:00:00Z"]
OtherMessage ==
    [id |-> "m2", subject |-> "Re: Hi", from |-> "bob@contoso.com", isRead |-> PyFalse,
     bodyPreview |-> "Hello Ann"]
PartialMessage == [id |-> "m3", receivedDateTime |-> "2025-01-02T00:00:00Z"]
JItem(obj) == [t |-> "object", obj |-> obj]
NotAnObject == [t |-> "string", obj |-> EmptyDict]
ListItems ==
    {JItem(FullMessage), JItem(OtherMessage), JItem(PartialMessage), JItem(EmptyDict),
     NotAnObject}
JList(items) == [t |-> "list", items |-> items]
JNull == [t |-> "null", items |-> <<>>]

ListValues ==
    {NoValue, JNull} \cup {JList(items) : items \in UNION {[1..n -> ListItems] : n \in 0..MaxMsgs}}
ListContents ==
    {JObject([context |-> "https://graph.microsoft.com/v1.0/$metadata"], v) : v \in ListValues}
    \cup {JArray, BadJson, Unreadable}
ListFileSystems == {NoFiles} \cup {SampleEmails :> c : c \in ListContents}

ServerFiles ==
    (SampleEmails :> JObject(EmptyDict, JList(<<JItem(FullMessage), JItem(PartialMessage)>>)))
    @@ (MessageFixture(<<"a">>) :> JObject(MessageBase @@ [success |-> "yes"], NoValue))
ServerFileSystems == {NoFiles, ServerFiles}

\* the message ids a client may send: any text of at most MaxLen characters,
\* or (for a direct caller) a value that is no str
Chars == {"a", "=", "/"}
Str_(s) == [isstr |-> TRUE, s |-> s]
NotAStr == [isstr |-> FALSE, s |-> <<>>]
MessageIds == {Str_(s) : s \in UNION {[1..n -> Chars] : n \in 0..MaxLen}} \cup {NotAStr}
ServerIds == {Str_(<<"a">>), Str_(<<"a", "=">>), Str_(<<"/", "a">>), NotAStr}

(***************************************************************************)
(* Specifications.                                                         *)
(***************************************************************************)
\* the import of app.py in environment env, before any request
Start(env) ==
    /\ environ = env
    /\ client_id = env.AZURE_CLIENT_ID
    /\ client_secret = env.AZURE_CLIENT_SECRET
    /\ tenant_id = env.AZURE_TENANT_ID
    /\ user_scopes = read_user_scopes(env)
    /\ graphs = [k \in 0..MaxCalls |-> NoGraph]
    /\ calls = [i \in Calls |-> IdleCall]

\* the server: every tool, requests with any token
Init ==
    /\ \E env \in Envs : Start(env)
    /\ fs \in ServerFileSystems
    /\ directory = ServerDirectory

Next ==
    \E i \in Calls :
        \/ GetUserInfo(i, RequestTokens)
        \/ GreetUserStart(i, RequestTokens)
        \/ GreetUserFinish(i)
        \/ DisplayAccessTokenStart(i, RequestTokens)
        \/ DisplayAccessTokenFinish(i)
        \/ ListEmailMessages(i, RequestTokens)
        \/ GetEmailMessage(i, RequestTokens, ServerIds)

Spec == Init /\ [][Next]_vars

\* get_email_message over every message id and every fixture
InitMsg ==
    /\ Start(EnvOk)
    /\ fs \in MsgFileSystems
    /\ directory = ServerDirectory

NextMsg == \E i \in Calls : GetEmailMessage(i, {"tokA"}, MessageIds)

SpecMsg == InitMsg /\ [][NextMsg]_vars

\* list_email_messages over every content of sample_emails.json
InitList ==
    /\ Start(EnvOk)
    /\ fs \in ListFileSystems
    /\ directory = ServerDirectory

NextList == \E i \in Calls : ListEmailMessages(i, {"tokA"})

SpecList == InitList /\ [][NextList]_vars

\* greet_user over every configuration and every profile
InitGreet ==
    /\ \E env \in Envs : Start(env)
    /\ fs = NoFiles
    /\ directory \in {[t \in Tokens |-> IF t = "tokA" THEN u ELSE Bob] : u \in Users}

NextGreet ==
    \E i \in Calls :
        \/ GreetUserStart(i, RequestTokens)
        \/ GreetUserFinish(i)

SpecGreet == InitGreet /\ [][NextGreet]_vars

(***************************************************************************)
(* Properties.                                                             *)
(***************************************************************************)
Done(c) == c.pc \in {"returned", "raised"}

\* how an invocation ended
EndOf(c) == [pc |-> c.pc, result |-> c.result, exception |-> c.exception, opened |-> c.opened]

CatchingTools ==
    {"greet_user", "display_access_token", "list_email_messages", "get_email_message"}
MailTools == {"list_email_messages", "get_email_message"}

\* the content of the file an invocation opened, when there is such a file
OpenedFile(c) == c.opened # NoOpen /\ PathStr(c.opened) \in DOMAIN fs
FixtureOf(c) == fs[PathStr(c.opened)]

IsPrefix(a, b) == Len(a) <= Len(b) /\ SubSeq(b, 1, Len(a)) = a

\* C1 (catch-and-report): an invocation of greet_user, display_access_token,
\* list_email_messages or get_email_message never ends by an exception reaching
\* the caller, whatever step of its body failed; it returns a dictionary with
\* a success flag, and with an error entry when the flag is False.
C1_CatchAndReport ==
    \A i \in Calls :
        (calls[i].tool \in CatchingTools /\ Done(calls[i]))
        => /\ calls[i].pc = "returned"
           /\ "success" \in DOMAIN calls[i].result
           /\ (calls[i].result["success"] = PyFalse => "error" \in DOMAIN calls[i].result)

\* C2 as stated: every tool, get_user_info included, returns a dictionary
\* holding a boolean 'success' flag.
C2_EveryToolHasSuccessFlag ==
    \A i \in Calls :
        calls[i].pc = "returned"
        => /\ "success" \in DOMAIN calls[i].result
           /\ calls[i].result["success"] \in PyBool

\* C2 as amended: greet_user, display_access_token, list_email_messages and
\* get_email_message return a dictionary holding a boolean 'success' flag;
\* get_user_info returns exactly the five claim entries and no flag.
C2_SuccessFlagButUserInfo ==
    \A i \in Calls :
        calls[i].pc = "returned"
        => IF calls[i].tool = "get_user_info"
           THEN DOMAIN calls[i].result
                    = {"azure_id", "email", "name", "job_title", "office_location"}
           ELSE /\ "success" \in DOMAIN calls[i].result
                /\ calls[i].result["success"] \in PyBool

\* C2's case: get_user_info has returned, and get_email_message has returned
\* a fixture whose own 'success' entry is not a boolean.
C2_Witness ==
    \E i, j \in Calls :
        /\ calls[i].pc = "returned" /\ calls[i].tool = "get_user_info"
        /\ calls[j].pc = "returned" /\ calls[j].tool = "get_email_message"
        /\ OpenedFile(calls[j])
        /\ "success" \in DOMAIN FixtureOf(calls[j]).obj
        /\ FixtureOf(calls[j]).obj["success"] = "yes"
        /\ calls[j].result["success"] = PyTrue

\* the messages of a fixture's 'value' entry, none when it has no list
FixtureMessages(file) == file.value.items

ListShape(result, messages) ==
    /\ "success" \in DOMAIN result
    /\ result["success"] = PyTrue
    /\ DOMAIN result = {"value", "message_count", "success"}
    /\ Len(result["value"]) = Len(messages)
    /\ result["message_count"] = PyInt(Len(messages))
    /\ \A n \in 1..Len(messages) :
           /\ DOMAIN result["value"][n] = {"id", "subject", "from", "isRead", "bodyPreview"}
           /\ \A k \in DOMAIN result["value"][n] :
                  result["value"][n][k]
                      = IF messages[n].t = "object" /\ k \in DOMAIN messages[n].obj
                        THEN messages[n].obj[k]
                        ELSE PyNone

\* C3 as stated: whenever sample_emails.json parses to an object,
\* list_email_messages returns success = True, one entry per element of the
\* fixture's 'value' in order, each with exactly the five keys (None for a
\* missing one), and message_count the number of entries.
C3_ListsWheneverObject ==
    \A i \in Calls :
        (/\ calls[i].tool = "list_email_messages"
         /\ Done(calls[i])
         /\ OpenedFile(calls[i])
         /\ FixtureOf(calls[i]).kind = "object")
        => /\ calls[i].pc = "returned"
           /\ ListShape(calls[i].result, FixtureMessages(FixtureOf(calls[i])))

\* C3 as amended: the same, when moreover the fixture's 'value' entry is
\* absent or is a list whose elements are all JSON objects.
C3_ListsWellFormedFixture ==
    \A i \in Calls :
        (/\ calls[i].tool = "list_email_messages"
         /\ Done(calls[i])
         /\ OpenedFile(calls[i])
         /\ FixtureOf(calls[i]).kind = "object"
         /\ FixtureOf(calls[i]).value.t \in {"absent", "list"}
         /\ \A n \in 1..Len(FixtureOf(calls[i]).value.items) :
                FixtureOf(calls[i]).value.items[n].t = "object")
        => /\ calls[i].pc = "returned"
           /\ ListShape(calls[i].result, FixtureMessages(FixtureOf(calls[i])))

\* C3's case: a fixture of two messages, the first lacking most keys, listed
\* in the fixture's order.
C3_Witness ==
    \E i \in Calls :
        /\ calls[i].pc = "returned" /\ calls[i].tool = "list_email_messages"
        /\ OpenedFile(calls[i])
        /\ FixtureOf(calls[i]).value = JList(<<JItem(PartialMessage), JItem(FullMessage)>>)
        /\ calls[i].result["value"][1]["id"] = "m3"
        /\ calls[i].result["value"][1]["subject"] = PyNone
        /\ calls[i].result["value"][2]["id"] = "m1"
        /\ calls[i].result["message_count"] = "<2>"

ReadsObjectFixture(c) ==
    /\ c.tool = "get_email_message"
    /\ Done(c)
    /\ OpenedFile(c)
    /\ FixtureOf(c).kind = "object"

\* C4 as stated: when the fixture of the requested message exists and is a
\* JSON object, get_email_message returns success = True, every key of the
\* fixture with the fixture's value, and no key but the fixture's and
\* 'success'.
C4_FixtureUnmodified ==
    \A i \in Calls :
        ReadsObjectFixture(calls[i])
        => /\ calls[i].pc = "returned"
           /\ calls[i].result["success"] = PyTrue
           /\ DOMAIN calls[i].result = DOMAIN FixtureOf(calls[i]).obj \cup {"success"}
           /\ \A k \in DOMAIN FixtureOf(calls[i]).obj :
                  calls[i].result[k] = FixtureOf(calls[i]).obj[k]

\* C4 as amended: the same for every key of the fixture other than
\* 'success'; the result's 'success' is True whatever the fixture holds there.
C4_FixtureUnmodifiedButSuccess ==
    \A i \in Calls :
        ReadsObjectFixture(calls[i])
        => /\ calls[i].pc = "returned"
           /\ calls[i].result["success"] = PyTrue
           /\ DOMAIN calls[i].result = DOMAIN FixtureOf(calls[i]).obj \cup {"success"}
           /\ \A k \in DOMAIN FixtureOf(calls[i]).obj \ {"success"} :
                  calls[i].result[k] = FixtureOf(calls[i]).obj[k]

\* C4's case: a fixture holding its own 'success' and 'error' entries has
\* been returned.
C4_Witness ==
    \E i \in Calls :
        /\ ReadsObjectFixture(calls[i])
        /\ FixtureOf(calls[i]).obj = MessageBase @@ [success |-> PyFalse] @@ [error |-> "boom"]
        /\ calls[i].result["subject"] = "Hi"
        /\ calls[i].result["error"] = "boom"
        /\ calls[i].result["success"] = PyTrue

AloneEnds(c) ==
    LET ctx == [token |-> c.token]
        client == get_graph_client(get_access_token(ctx))
    IN  CASE c.tool = "get_user_info" -> {get_user_info(ctx)}
          [] c.tool = "list_email_messages" -> {list_email_messages(ctx)}
          [] c.tool = "get_email_message" -> {get_email_message(ctx, c.message_id)}
          [] c.tool = "greet_user" ->
                IF client.exc # ""
                THEN {greet_user_except(client.exc, NoError, client.msg)}
                ELSE {greet_user_finish(a) :
                        a \in {x \in get_user(client.graph) : x.kind = c.answer}}
          [] c.tool = "display_access_token" ->
                IF client.exc # ""
                THEN {display_access_token_except(client.msg)}
                ELSE {display_access_token_finish(a) :
                        a \in {x \in get_user_token(client.graph) : x.kind = c.answer}}

\* C6: invocations do not interfere: the module configuration stays what
\* the import read from the environment; a suspended greet_user or
\* display_access_token holds a Graph client whose credential asserts its own
\* request's token; and every invocation ends as it would have ended alone
\* with the same external answer and the same files.
C6_NoInterference ==
    /\ client_id = environ.AZURE_CLIENT_ID
    /\ client_secret = environ.AZURE_CLIENT_SECRET
    /\ tenant_id = environ.AZURE_TENANT_ID
    /\ user_scopes = read_user_scopes(environ)
    /\ \A i \in Calls :
           calls[i].pc = "awaiting"
           => /\ graphs[GraphSlot(i)].device_code_credential.user_assertion = calls[i].token
              /\ graphs[GraphSlot(i)].user_client.credential.user_assertion = calls[i].token
    /\ \A i \in Calls : Done(calls[i]) => EndOf(calls[i]) \in AloneEnds(calls[i])

\* C6's case: greet_user for tokB started while greet_user for tokA was
\* suspended, and each has greeted its own user.
C6_Witness ==
    \E i, j \in Calls :
        /\ i \in calls[j].overlap
        /\ calls[i].tool = "greet_user" /\ calls[i].pc = "returned"
        /\ calls[j].tool = "greet_user" /\ calls[j].pc = "returned"
        /\ calls[i].token = "tokA" /\ calls[j].token = "tokB"
        /\ calls[i].answer = "user" /\ calls[j].answer = "user"
        /\ calls[i].result["display_name"] = "Ann"
        /\ calls[j].result["display_name"] = "Bob"

Blank(v) == v \in {PyNone, ""}

\* C7: greet_user's result.  When the Graph call returned a user: success
\* True, display_name the user's or 'User' when that is empty or None,
\* greeting 'Hello, <display_name>!', email the user's mail, else its
\* user_principal_name, else 'No email found'.  In every other outcome:
\* success False, greeting 'Hello!', an error string, and no display_name or
\* email.
C7_GreetShape ==
    \A i \in Calls :
        (calls[i].tool = "greet_user" /\ Done(calls[i]))
        => /\ calls[i].pc = "returned"
           /\ IF calls[i].answer = "user"
              THEN LET user == directory[calls[i].token]
                       name == IF Blank(user.display_name) THEN "User" ELSE user.display_name
                       email == IF ~Blank(user.mail) THEN user.mail
                                ELSE IF ~Blank(user.user_principal_name)
                                THEN user.user_principal_name
                                ELSE "No email found"
                   IN  calls[i].result
                           = [greeting |-> "Hello, " \o name \o "!", display_name |-> name,
                              email |-> email, success |-> PyTrue]
              ELSE /\ DOMAIN calls[i].result = {"greeting", "error", "success"}
                   /\ calls[i].result["success"] = PyFalse
                   /\ calls[i].result["greeting"] = "Hello!"
                   /\ calls[i].result["error"] \notin {PyNone, PyTrue, PyFalse}

\* C7's case: a user with an empty display name and no mail has been greeted
\* by its user_principal_name.
C7_Witness ==
    \E i \in Calls :
        /\ calls[i].tool = "greet_user" /\ calls[i].pc = "returned"
        /\ calls[i].answer = "user"
        /\ directory[calls[i].token]
               = [display_name |-> "", mail |-> PyNone,
                  user_principal_name |-> "ann@contoso.onmicrosoft.com"]
        /\ calls[i].result["greeting"] = "Hello, User!"
        /\ calls[i].result["email"] = "ann@contoso.onmicrosoft.com"

\* C8 (error key marks failure): a dictionary returned by greet_user,
\* display_access_token, list_email_messages or get_email_message holds the
\* key 'error' if and only if its 'success' is False.
C8_ErrorIffFailure ==
    \A i \in Calls :
        (calls[i].tool \in CatchingTools /\ calls[i].pc = "returned")
        => ("error" \in DOMAIN calls[i].result <=> calls[i].result["success"] = PyFalse)

\* C9 (fixture confinement): whatever the message_id, a file that
\* get_email_message opens lies in the data directory; no message_id makes it
\* read a file outside.
C9_FixtureConfinement ==
    \A i \in Calls :
        (calls[i].tool = "get_email_message" /\ OpenedFile(calls[i]))
        => IsPrefix(Resolve(data_dir), ParentOf(calls[i].opened))

Eqs(n) == [k \in 1..n |-> "="]

\* s and t differ only in the number of their trailing '=' characters
DifferInTrailingEq(s, t) ==
    \E n \in 0..(Len(s) + Len(t)) : s = t \o Eqs(n) \/ t = s \o Eqs(n)

\* s without its trailing '=' characters
Stem(s) ==
    LET n == CHOOSE m \in 0..Len(s) :
                 /\ \A k \in (Len(s) - m + 1)..Len(s) : s[k] = "="
                 /\ (m = Len(s) \/ s[Len(s) - m] # "=")
    IN  SubSeq(s, 1, Len(s) - n)

ReadsMessage(c) == c.tool = "get_email_message" /\ Done(c) /\ c.message_id.isstr

\* C10 as stated: two message ids that differ only in the number of their
\* trailing '=' characters resolve to the same fixture file and return the
\* same result.
C10_SameResultUpToTrailingEq ==
    \A i, j \in Calls :
        (/\ ReadsMessage(calls[i]) /\ ReadsMessage(calls[j])
         /\ DifferInTrailingEq(calls[i].message_id.s, calls[j].message_id.s))
        => /\ calls[i].opened = calls[j].opened
           /\ EndOf(calls[i]) = EndOf(calls[j])

\* C10 as amended: the file opened is '<data>/<id without its trailing
\* '='>.json' (all trailing '=' are stripped, and nothing else; stripping
\* again changes nothing); two ids that differ only in their trailing '='
\* open the same file and return the same result, except when open() finds
\* no such file: then each returns success False with an error quoting its
\* own, unstripped id.
C10_SameFileUpToTrailingEq ==
    /\ \A i \in Calls :
           ReadsMessage(calls[i])
           => /\ calls[i].opened
                     = Resolve(join(data_dir, Stem(calls[i].message_id.s) \o <<".json">>))
              /\ rstrip(rstrip(calls[i].message_id.s, "="), "=")
                     = rstrip(calls[i].message_id.s, "=")
              /\ ~OpenedFile(calls[i])
                 => calls[i].result
                        = [error |-> "Message with ID '" \o Str(calls[i].message_id.s)
                                     \o "' not found",
                           success |-> PyFalse]
    /\ \A i, j \in Calls :
           (/\ ReadsMessage(calls[i]) /\ ReadsMessage(calls[j])
            /\ DifferInTrailingEq(calls[i].message_id.s, calls[j].message_id.s))
           => /\ calls[i].opened = calls[j].opened
              /\ OpenedFile(calls[i]) => EndOf(calls[i]) = EndOf(calls[j])

\* C10's case: the ids 'a' and 'a=' have both returned the fixture a.json.
C10_Witness ==
    \E i, j \in Calls :
        /\ ReadsMessage(calls[i]) /\ ReadsMessage(calls[j])
        /\ calls[i].message_id.s = <<"a">>
        /\ calls[j].message_id.s = <<"a", "=">>
        /\ calls[i].pc = "returned"
        /\ calls[i].result["success"] = PyTrue
        /\ calls[i].result = calls[j].result

====
